---- MODULE Spec2Model ----
(***************************************************************************)
(* Model of ultranest/ordertest.py: the UniformOrderAccumulator (a         *)
(* histogram of insertion ranks plus the running U statistic) and the      *)
(* batch function infinite_U_zscore.                                       *)
(*                                                                         *)
(* Numbers.  The program computes U and the z-score in float64.  The model *)
(* computes them exactly, as reduced fractions [n |-> numerator,           *)
(* d |-> denominator > 0].  A z-score is x / sqrt(v) for rationals x and   *)
(* v > 0, which is irrational in general; the model returns its signed     *)
(* square x*|x| / v.  z |-> z*|z| is a bijection of the reals that fixes   *)
(* 0, so two z-scores are equal exactly when their signed squares are.     *)
(* The histogram cells are uint32 in the program; every count of the model *)
(* is at most the number of adds its bounds allow, far from 2^32, so no    *)
(* cell wraps.                                                             *)
(***************************************************************************)
EXTENDS Integers, Sequences, FiniteSets

VARIABLES acc, result, nadds, initCap, maxN, expanded, acc2, todo1, todo2,
          scale, remaining, ranks, fed

vars == <<acc, result, nadds, initCap, maxN, expanded, acc2, todo1, todo2,
          scale, remaining, ranks, fed>>

\* ------------------------------------------------------------------ bounds
\* largest initial capacity given to the constructor
MaxCap == 1
\* largest scale N given to add in Spec
MaxN == 3
\* largest number of successful adds between two resets in Spec
MaxAdds == 2
\* largest scale and largest multiset of SpecOrder
OrdMaxN == 2
OrdLen == 3
\* largest scale of the uniform scenario of SpecUniform
MaxScaleU == 10
\* largest scale B and longest sample of SpecBatch
MaxB == 3
MaxSample == 4

\* ------------------------------------------------------- exact arithmetic
Abs(x) == IF x < 0 THEN -x ELSE x

RECURSIVE GCD(_, _)
GCD(a, b) == IF b = 0 THEN a ELSE GCD(b, a % b)

\* the fraction n/d (d # 0) in lowest terms with a positive denominator
Frac(n, d) ==
    LET g == GCD(Abs(n), Abs(d))
        s == IF d < 0 THEN -1 ELSE 1
    IN  [n |-> (s * n) \div g, d |-> Abs(d) \div g]

Rat(i) == [n |-> i, d |-> 1]
Zero == Rat(0)
Half == [n |-> 1, d |-> 2]

RAdd(x, y) == Frac(x.n * y.d + y.n * x.d, x.d * y.d)
RSub(x, y) == Frac(x.n * y.d - y.n * x.d, x.d * y.d)
RMul(x, y) == Frac(x.n * y.n, x.d * y.d)
\* x / y, y # 0
RDiv(x, y) == Frac(x.n * y.d, x.d * y.n)
RAbs(x) == [n |-> Abs(x.n), d |-> x.d]
\* the signed square x*|x|, the model's encoding of a float result that
\* involves a square root
SSq(x) == RMul(x, RAbs(x))

\* ------------------------------------------------------------ numpy arrays
\* np.zeros(N, dtype=np.uint32): indices 0..N-1
zeros(N) == [i \in 0..(N - 1) |-> 0]

\* ndarray.size
size(h) == Cardinality(DOMAIN h)

RECURSIVE SumTo(_, _)
SumTo(h, k) == IF k = 0 THEN 0 ELSE h[k - 1] + SumTo(h, k - 1)

\* ndarray.sum()
sum(h) == SumTo(h, size(h))

\* --------------------------------------------------- UniformOrderAccumulator
\* __init__(N)
NewAcc(N) == [histogram |-> zeros(N), U |-> Zero]

reset_keepU(a) == [a EXCEPT !.histogram = [i \in DOMAIN a.histogram |-> 0]]

reset_keepCounts(a) == [a EXCEPT !.U = Zero]

\* reset(): histogram[:] = 0 keeps the array and its size
reset(a) == [histogram |-> [i \in DOMAIN a.histogram |-> 0], U |-> Zero]

expand_nocopy(a, N) ==
    IF N > size(a.histogram)
    THEN [a EXCEPT !.histogram = zeros(N)]
    ELSE a

expand_copyhigh(a, N) ==
    IF N > size(a.histogram)
    THEN LET old_hist == a.histogram
             shift == N - size(old_hist)
         IN  [a EXCEPT !.histogram =
                 [i \in 0..(N - 1) |->
                     IF i >= shift THEN old_hist[i - shift] ELSE 0]]
    ELSE a

\* expand(N)
expand(a, N) ==
    IF N > size(a.histogram)
    THEN LET old_hist == a.histogram
         IN  [a EXCEPT !.histogram =
                 [i \in 0..(N - 1) |->
                     IF i < size(old_hist) THEN old_hist[i] ELSE 0]]
    ELSE a

rank_ok_upper(rank, N) == 0 <= rank /\ rank <= N + 1

\* the test of add's first line: 0 <= rank <= N
rank_ok(rank, N) == 0 <= rank /\ rank <= N

must_expand_strict(a, N) == N > size(a.histogram)

\* the test that guards the call of expand in add
must_expand(a, N) == N >= size(a.histogram)

add_term_noshift(rank, N) == RDiv(Rat(rank), Rat(N))

\* (rank + 0.5) / N, N # 0
add_term(rank, N) == RDiv(RAdd(Rat(rank), Half), Rat(N))

\* add(rank, N): the accumulator after the call, how the call ended and
\* what it returned: "self", the accumulator itself, when it returns, and
\* "None" (no value) when it raises.  A call that raises keeps the
\* assignments made before the raise.
add(a, rank, N) ==
    IF ~rank_ok(rank, N)
    THEN [acc |-> a, outcome |-> "ValueError", value |-> "None"]
    ELSE LET a1 == IF must_expand(a, N) THEN expand(a, N + 1) ELSE a
         IN  IF N = 0
             THEN [acc |-> a1, outcome |-> "ZeroDivisionError",
                   value |-> "None"]
             ELSE LET a2 == [a1 EXCEPT !.U = RAdd(a1.U, add_term(rank, N))]
                  IN  IF rank \notin DOMAIN a2.histogram
                      THEN [acc |-> a2, outcome |-> "IndexError",
                            value |-> "None"]
                      ELSE [acc |-> [a2 EXCEPT !.histogram[rank] = @ + 1],
                            outcome |-> "ok", value |-> "self"]

\* zscore: (U - m_U) / sigma_U_corr as a signed square, sigma_U_corr^2 = N/12
zscore(a) ==
    LET N == sum(a.histogram)
    IN  IF N = 0
        THEN Zero
        ELSE LET m_U == RMul(Rat(N), Half)
                 var_U == RDiv(Rat(N), Rat(12))
             IN  RDiv(SSq(RSub(a.U, m_U)), var_U)

\* __len__
length(a) == sum(a.histogram)

\* -------------------------------------------------------- infinite_U_zscore
RECURSIVE SeqSum(_)
SeqSum(s) == IF s = <<>> THEN Zero ELSE RAdd(Head(s), SeqSum(Tail(s)))

infinite_U_zscore_noshift(sample, B) ==
    LET N == Len(sample)
        shifted == [i \in 1..N |-> Rat(sample[i])]
        num == RSub(SeqSum(shifted), RMul(RMul(Rat(N), Rat(B)), Half))
    IN  RDiv(SSq(num), RMul(RDiv(Rat(N), Rat(12)), SSq(Rat(B))))

\* infinite_U_zscore(sample, B) for a non-empty sample and B # 0, as a signed
\* square: the denominator (N/12)**0.5 * B has the signed square (N/12)*B*|B|
infinite_U_zscore(sample, B) ==
    LET N == Len(sample)
        shifted == [i \in 1..N |-> RAdd(Rat(sample[i]), Half)]
        num == RSub(SeqSum(shifted), RMul(RMul(Rat(N), Rat(B)), Half))
    IN  RDiv(SSq(num), RMul(RDiv(Rat(N), Rat(12)), SSq(Rat(B))))

\* ------------------------------------------------------------------ inputs
\* arguments of add: every scale N from -1 to MaxN and, for a scale N, every
\* rank from -1 to N + 1 (the ranks add accepts and the first one beyond
\* each end of 0..N)
Scales == (-1)..MaxN
Ranks(N) == (-1)..(N + 1)
\* arguments of a client's call of expand
Sizes == 0..(MaxN + 1)

NoCall == [op |-> "init", rank |-> 0, N |-> 0, cap0 |-> 0,
           outcome |-> "ok", value |-> "None"]

\* the record of a call: its name and arguments, the capacity before it, how
\* it ended and what it returned
Call(op, rank, N, a, outcome, value) ==
    [op |-> op, rank |-> rank, N |-> N, cap0 |-> size(a.histogram),
     outcome |-> outcome, value |-> value]

Max(a, b) == IF a >= b THEN a ELSE b

\* ---------------------------------------------------------- Spec: one client
\* acc: the accumulator.  result: the last call (see Call).  nadds: the
\* number of add calls that returned since the last reset.  initCap: the
\* constructor's argument.  maxN: the largest N of an add that returned, -1
\* when there is none.  expanded: the client has called expand itself.  The
\* remaining variables belong to SpecOrder,
\* SpecUniform and SpecBatch and keep their initial values here.
Init ==
    /\ \E c \in 0..MaxCap : acc = NewAcc(c) /\ initCap = c
    /\ result = NoCall
    /\ nadds = 0
    /\ maxN = -1
    /\ expanded = FALSE
    /\ acc2 = NewAcc(0)
    /\ todo1 = <<>>
    /\ todo2 = <<>>
    /\ scale = 0
    /\ remaining = {}
    /\ ranks = <<>>
    /\ fed = 0

Add ==
    \E N \in Scales : \E rank \in Ranks(N) :
        LET r == add(acc, rank, N)
        IN  /\ r.outcome = "ok" => nadds < MaxAdds
            /\ acc' = r.acc
            /\ result' = Call("add", rank, N, acc, r.outcome, r.value)
            /\ nadds' = IF r.outcome = "ok" THEN nadds + 1 ELSE nadds
            /\ maxN' = IF r.outcome = "ok" THEN Max(maxN, N) ELSE maxN
            /\ UNCHANGED <<expanded, initCap, acc2, todo1, todo2, scale,
                           remaining, ranks, fed>>

Reset ==
    /\ acc' = reset(acc)
    /\ result' = Call("reset", 0, 0, acc, "ok", "None")
    /\ nadds' = 0
    /\ UNCHANGED <<expanded, initCap, maxN, acc2, todo1, todo2, scale,
                   remaining, ranks, fed>>

\* a client's call of the public method expand(N); it returns None
Expand ==
    \E N \in Sizes :
        /\ acc' = expand(acc, N)
        /\ result' = Call("expand", 0, N, acc, "ok", "None")
        /\ expanded' = TRUE
        /\ UNCHANGED <<nadds, initCap, maxN, acc2, todo1, todo2, scale,
                       remaining, ranks, fed>>

Zscore ==
    /\ result' = Call("zscore", 0, 0, acc, "ok", zscore(acc))
    /\ UNCHANGED <<expanded, acc, nadds, initCap, maxN, acc2, todo1, todo2,
                   scale, remaining, ranks, fed>>

Length ==
    /\ result' = Call("len", 0, 0, acc, "ok", length(acc))
    /\ UNCHANGED <<expanded, acc, nadds, initCap, maxN, acc2, todo1, todo2,
                   scale, remaining, ranks, fed>>

Next == Add \/ Reset \/ Expand \/ Zscore \/ Length

Spec == Init /\ [][Next]_vars

\* ------------------------------------- SpecOrder: one multiset, two orderings
\* Two accumulators built with the same capacity are fed the same multiset of
\* valid (rank, N) pairs, each in an order of its own.  todo1 and todo2 map
\* every pair to the number of its copies not yet fed to acc and to acc2.
OrdPairs == {p \in [rank : 0..OrdMaxN, N : 1..OrdMaxN] : p.rank <= p.N}

BagOf(s) == [p \in OrdPairs |-> Cardinality({i \in 1..Len(s) : s[i] = p})]

OrdBags == {BagOf(s) : s \in UNION {[1..k -> OrdPairs] : k \in 0..OrdLen}}

EmptyBag == [p \in OrdPairs |-> 0]

InitOrder ==
    /\ \E c \in {0, MaxCap} :
           acc = NewAcc(c) /\ acc2 = NewAcc(c) /\ initCap = c
    /\ \E b \in OrdBags : todo1 = b /\ todo2 = b
    /\ result = NoCall
    /\ nadds = 0
    /\ maxN = -1
    /\ expanded = FALSE
    /\ scale = 0
    /\ remaining = {}
    /\ ranks = <<>>
    /\ fed = 0

Feed1 ==
    \E p \in OrdPairs :
        /\ todo1[p] > 0
        /\ acc' = add(acc, p.rank, p.N).acc
        /\ todo1' = [todo1 EXCEPT ![p] = @ - 1]
        /\ UNCHANGED <<expanded, result, nadds, initCap, maxN, acc2, todo2,
                       scale, remaining, ranks, fed>>

Feed2 ==
    \E p \in OrdPairs :
        /\ todo2[p] > 0
        /\ acc2' = add(acc2, p.rank, p.N).acc
        /\ todo2' = [todo2 EXCEPT ![p] = @ - 1]
        /\ UNCHANGED <<expanded, result, nadds, initCap, maxN, acc, todo1,
                       scale, remaining, ranks, fed>>

NextOrder == Feed1 \/ Feed2

SpecOrder == InitOrder /\ [][NextOrder]_vars

\* ------------------------------------------ SpecUniform: every rank once
\* Every rank of 0..scale-1 is added once with N = scale, in any order, to an
\* accumulator that is fresh or was just reset.  remaining: the ranks not yet
\* added.
InitUniform ==
    /\ \E c \in 0..MaxCap : acc = NewAcc(c) /\ initCap = c
    /\ \E n \in 1..MaxScaleU : scale = n /\ remaining = 0..(n - 1)
    /\ result = NoCall
    /\ nadds = 0
    /\ maxN = -1
    /\ expanded = FALSE
    /\ acc2 = NewAcc(0)
    /\ todo1 = <<>>
    /\ todo2 = <<>>
    /\ ranks = <<>>
    /\ fed = 0

UAdd ==
    \E rank \in remaining :
        LET r == add(acc, rank, scale)
        IN  /\ acc' = r.acc
            /\ result' = Call("add", rank, scale, acc, r.outcome, r.value)
            /\ remaining' = remaining \ {rank}
            /\ UNCHANGED <<expanded, nadds, initCap, maxN, acc2, todo1, todo2,
                           scale, ranks, fed>>

UReset ==
    /\ acc' = reset(acc)
    /\ result' = Call("reset", 0, 0, acc, "ok", "None")
    /\ remaining' = 0..(scale - 1)
    /\ UNCHANGED <<expanded, nadds, initCap, maxN, acc2, todo1, todo2, scale,
                   ranks, fed>>

NextUniform == UAdd \/ UReset

SpecUniform == InitUniform /\ [][NextUniform]_vars

\* ------------------------------------- SpecBatch: batch against incremental
\* ranks: the sample, a non-empty sequence of ranks of 0..scale; its first
\* fed elements have been given to acc with add(rank, scale).
InitBatch ==
    /\ \E c \in 0..MaxCap : acc = NewAcc(c) /\ initCap = c
    /\ \E B \in 1..MaxB :
           /\ scale = B
           /\ ranks \in UNION {[1..k -> 0..B] : k \in 1..MaxSample}
    /\ fed = 0
    /\ result = NoCall
    /\ nadds = 0
    /\ maxN = -1
    /\ expanded = FALSE
    /\ acc2 = NewAcc(0)
    /\ todo1 = <<>>
    /\ todo2 = <<>>
    /\ remaining = {}

BatchFeed ==
    /\ fed < Len(ranks)
    /\ LET r == add(acc, ranks[fed + 1], scale)
       IN  /\ acc' = r.acc
           /\ result' = Call("add", ranks[fed + 1], scale, acc, r.outcome,
                             r.value)
    /\ fed' = fed + 1
    /\ UNCHANGED <<expanded, nadds, initCap, maxN, acc2, todo1, todo2, scale,
                   remaining, ranks>>

NextBatch == BatchFeed

SpecBatch == InitBatch /\ [][NextBatch]_vars

\* ------------------------------------------------------------------ claims
\* the count at index i, 0 for an index the array does not have
CountAt(a, i) == IF i \in DOMAIN a.histogram THEN a.histogram[i] ELSE 0

\* C1: in every reachable state length(acc) = sum(counts) is the number of
\* add calls that returned since the last reset (since construction when
\* there was none), and a length query returns that number.
C1_LengthCountsAdds ==
    /\ length(acc) = nadds
    /\ result.op = "len" => result.value = nadds

C1_Witness ==
    /\ result.op = "len"
    /\ result.value = 2
    /\ nadds = 2
    /\ maxN = MaxN

\* C2: an add whose rank is below 0 or above N ends in the invalid-rank error
\* (ValueError) and leaves the counts, the running sum and the capacity as
\* they were.
C2_InvalidRankNoChange ==
    [][(/\ result'.op = "add"
        /\ (result'.rank < 0 \/ result'.rank > result'.N))
       => (/\ result'.outcome = "ValueError"
           /\ acc' = acc)]_vars

C2_Witness ==
    /\ result.op = "add"
    /\ result.outcome = "ValueError"
    /\ result.rank = result.N + 1
    /\ result.N >= 1
    /\ nadds > 0

\* C3: an add with N >= 1 and 0 <= rank <= N returns: afterwards the capacity
\* is at least N + 1, index rank exists and its count is one larger, and the
\* running sum is larger by exactly (rank + 0.5)/N = (2 rank + 1)/(2 N).
C3_ValidAddSucceeds ==
    [][(/\ result'.op = "add"
        /\ result'.N >= 1
        /\ 0 <= result'.rank
        /\ result'.rank <= result'.N)
       => (/\ result'.outcome = "ok"
           /\ size(acc'.histogram) >= result'.N + 1
           /\ result'.rank \in DOMAIN acc'.histogram
           /\ acc'.histogram[result'.rank] = CountAt(acc, result'.rank) + 1
           /\ RSub(acc'.U, acc.U)
                = Frac(2 * result'.rank + 1, 2 * result'.N))]_vars

C3_Witness ==
    /\ result.op = "add"
    /\ result.outcome = "ok"
    /\ result.N >= 1
    /\ result.rank = result.N
    /\ result.cap0 = result.N
    /\ size(acc.histogram) = result.N + 1
    /\ acc.histogram[result.rank] = 1

\* C4: reset leaves the accumulator in the state of a newly constructed one
\* of the same capacity: all counts 0, running sum 0, zscore 0, length 0,
\* capacity unchanged.
C4_ResetIsFresh ==
    [][result'.op = "reset"
       => (/\ acc' = NewAcc(size(acc.histogram))
           /\ size(acc'.histogram) = size(acc.histogram)
           /\ \A i \in DOMAIN acc'.histogram : acc'.histogram[i] = 0
           /\ acc'.U = Zero
           /\ zscore(acc') = Zero
           /\ length(acc') = 0)]_vars

C4_Witness ==
    /\ result.op = "reset"
    /\ maxN >= 1
    /\ result.cap0 > initCap
    /\ size(acc.histogram) = result.cap0
    /\ length(acc) = 0

\* C5: two accumulators of the same initial capacity that were fed the same
\* multiset of valid pairs, each in its own order, have the same zscore, the
\* same counts and the same length.
C5_OrderInvariance ==
    (todo1 = EmptyBag /\ todo2 = EmptyBag)
    => (/\ zscore(acc) = zscore(acc2)
        /\ acc.histogram = acc2.histogram
        /\ length(acc) = length(acc2))

C5_Witness ==
    /\ todo1 = EmptyBag
    /\ todo2 = EmptyBag
    /\ length(acc) = OrdLen
    /\ length(acc2) = OrdLen
    /\ size(acc.histogram) > initCap
    /\ zscore(acc) # Zero
    /\ \E i, j \in DOMAIN acc.histogram :
          i # j /\ acc.histogram[i] > 0 /\ acc.histogram[j] > 0

\* C6: for a scale B >= 1 and a non-empty sequence of ranks of 0..B, the
\* batch function on the sequence equals the zscore of an accumulator that
\* received add(r, B) for each rank r of the sequence.
C6_BatchAgreesWithIncremental ==
    fed >= 1 => infinite_U_zscore(SubSeq(ranks, 1, fed), scale) = zscore(acc)

C6_Witness ==
    /\ fed = Len(ranks)
    /\ fed >= 3
    /\ scale >= 2
    /\ ranks[1] # ranks[2]
    /\ length(acc) = fed
    /\ zscore(acc) # Zero

\* C7: when an add that returns grows the array (N >= capacity before the
\* call), every index the array had keeps its count, except index rank whose
\* count is one larger, and every new index other than rank holds 0.
C7_GrowthKeepsCounts ==
    [][(/\ result'.op = "add"
        /\ result'.outcome = "ok"
        /\ result'.N >= size(acc.histogram))
       => (/\ \A i \in DOMAIN acc.histogram :
                 acc'.histogram[i]
                   = acc.histogram[i] + (IF i = result'.rank THEN 1 ELSE 0)
           /\ \A i \in DOMAIN acc'.histogram \ DOMAIN acc.histogram :
                 i # result'.rank => acc'.histogram[i] = 0)]_vars

C7_Witness ==
    /\ result.op = "add"
    /\ result.outcome = "ok"
    /\ result.cap0 >= 1
    /\ result.N > result.cap0
    /\ size(acc.histogram) = result.N + 1
    /\ \E i \in 0..(result.cap0 - 1) :
          i # result.rank /\ acc.histogram[i] > 0

\* C8: add either returns or ends in the invalid-rank error (ValueError), the
\* latter only when rank < 0 or rank > N; reset, zscore and length always
\* return, and zscore of an empty accumulator returns 0.
C8_OnlyInvalidRank ==
    /\ result.op = "add" =>
          /\ result.outcome \in {"ok", "ValueError"}
          /\ result.outcome = "ValueError"
                => (result.rank < 0 \/ result.rank > result.N)
    /\ result.op \in {"reset", "zscore", "len"} => result.outcome = "ok"
    /\ (result.op = "zscore" /\ length(acc) = 0) => result.value = Zero

\* C9: after every rank of 0..N-1 was added once with the same scale N to an
\* empty accumulator, in any order, the running sum is total * 0.5 and the
\* zscore is 0.
C9_UniformSampleZero ==
    remaining = {}
    => (/\ length(acc) = scale
        /\ acc.U = RMul(Rat(length(acc)), Half)
        /\ zscore(acc) = Zero)

C9_Witness ==
    /\ remaining = {}
    /\ scale = 10
    /\ result.op = "add"
    /\ size(acc.histogram) = 11
    /\ \A i \in 0..9 : acc.histogram[i] = 1

\* C10: as long as the client does not call expand itself, the capacity
\* never decreases and changes only in an add that returns and whose N is at
\* least the capacity, where it becomes N + 1; so it is always the larger of
\* the initial capacity and 1 + the largest N of an add that returned.
C10_CapacityLaw ==
    /\ [](~expanded => size(acc.histogram) = Max(initCap, maxN + 1))
    /\ [][result'.op # "expand"
          => (/\ size(acc'.histogram) >= size(acc.histogram)
              /\ size(acc'.histogram) # size(acc.histogram)
                    => (/\ result'.op = "add"
                        /\ result'.outcome = "ok"
                        /\ result'.N >= size(acc.histogram)
                        /\ size(acc'.histogram) = result'.N + 1))]_vars

====
